---- MODULE Spec2Model ----
(***************************************************************************)
(* Model of src-tauri/src/lib.rs of the organizer desktop utility:         *)
(*   - stream_server_status, the remote status streaming bridge, as a      *)
(*     state machine interleaved with the remote ssh child process;        *)
(*   - get_top_processes (macOS and generic variants) as handlers applied  *)
(*     to an enumerated process table;                                     *)
(*   - get_process_details, get_memory_info, get_disk_space and            *)
(*     get_disk_space_detailed as handlers applied to enumerated readings  *)
(*     of the library, the kernel and the external probes.                 *)
(***************************************************************************)
EXTENDS Integers, Sequences, FiniteSets, TLC

VARIABLES
    pc,            \* position of stream_server_status: "start", "spawn", "read", "done"
    emitted,       \* payloads handed to app.emit("server-status:step", ..), in call order
    result,        \* return value of stream_server_status
    child,         \* the ssh child process: "none", "running", "exited"
    exitCode,      \* exit status of the child once it has exited, -1 before
    remoteOut,     \* every line the remote command has written to its stdout, in order
    nread,         \* how many of those lines reader.lines() has yielded so far
    stdoutClosed,  \* the remote side has closed its stdout (EOF follows the buffered lines)
    procs,         \* sys.processes() in iteration order, with the rusage outcome per pid
    limit,         \* the limit argument of get_top_processes
    lsof,          \* what the lsof probe does when get_top_processes (macos) runs it
    lsofArgs,      \* the pids get_top_processes (macos) passed to lsof -p, None if lsof was not run
    topResult,     \* return value of get_top_processes
    detailsIn,     \* get_process_details: the pid asked for, what sysinfo and the probes report
    detailsResult, \* return value of get_process_details
    memIn,         \* get_memory_info: the kernel statistics, sysctl and sysinfo readings
    memResult,     \* return value of get_memory_info
    diskIn,        \* get_disk_space(_detailed): the swift helper's outcome and the enumerated disks
    diskResult     \* return value of get_disk_space(_detailed)

streamVars == <<pc, emitted, result, child, exitCode, remoteOut, nread, stdoutClosed>>
topVars == <<procs, limit, lsof, lsofArgs, topResult>>
snapshotVars == <<detailsIn, detailsResult, memIn, memResult, diskIn, diskResult>>
vars == <<pc, emitted, result, child, exitCode, remoteOut, nread, stdoutClosed,
          procs, limit, lsof, lsofArgs, topResult,
          detailsIn, detailsResult, memIn, memResult, diskIn, diskResult>>

----------------------------------------------------------------------------
(* Bounds of the model *)

MaxLines == 3

MaxProcs == 2

----------------------------------------------------------------------------
(* Option<T> and Result<T, String> *)

None == [some |-> FALSE]

Some(x) == [some |-> TRUE, v |-> x]

Pending == [kind |-> "pending"]

Ok == [kind |-> "Ok"]

\* An error string built by format!: the sequence of its pieces, in order.
Err(parts) == [kind |-> "Err", msg |-> parts]

Min(a, b) == IF a < b THEN a ELSE b

\* A Result returned by the build for `platform`.
OkOn(platform, v) == [kind |-> "Ok", platform |-> platform, value |-> v]
ErrOn(platform, parts) == [kind |-> "Err", platform |-> platform, msg |-> parts]

\* get_process_details has not been called.
DetailsIdle ==
    /\ detailsIn = [kind |-> "idle"]
    /\ detailsResult = Pending

\* get_memory_info has not been called.
MemoryIdle ==
    /\ memIn = [kind |-> "idle"]
    /\ memResult = Pending

\* The disk commands have not been called.
DiskIdle ==
    /\ diskIn = [kind |-> "idle"]
    /\ diskResult = Pending

\* The snapshot commands have not been called and read nothing.
SnapshotIdle == DetailsIdle /\ MemoryIdle /\ DiskIdle

----------------------------------------------------------------------------
(* serde_json::Value *)

JNull == [t |-> "null"]

JNum(n) == [t |-> "num", v |-> n]

JStr(s) == [t |-> "str", v |-> s]

JArr(s) == [t |-> "arr", items |-> s]

JBool(b) == [t |-> "bool", v |-> b]

\* An object: its key set and the value under each key.
JObj(ks, f) == [t |-> "obj", keys |-> ks, at |-> f]

\* Value::get(&str): Some(member) for an object that has the key, None for an
\* object without it and for every value that is not an object.
ValueGet(val, key) ==
    IF val.t = "obj" /\ key \in val.keys THEN Some(val.at[key]) ELSE None

\* Option<&Value>::and_then(|v| v.as_str()): Some(s) only for a JSON string.
AndThenAsStr(opt) ==
    IF opt.some /\ opt.v.t = "str" THEN Some(opt.v.v) ELSE None

UnwrapOr(opt, dflt) == IF opt.some THEN opt.v ELSE dflt

----------------------------------------------------------------------------
(* The lines the remote command can write, as text, and what                *)
(* serde_json::from_str makes of each.                                      *)

LineEmpty == ""

LineSpaces == "  "

LineScan == "{\"step\":\"scan\",\"data\":{\"n\":1}}"

LineDone == "{\"step\":\"done\"}"

LineStepNum == "{\"step\":5,\"data\":null}"

LineNoStep == "{\"data\":[1]}"

LineNumber == "42"

LineNotJson == "not json"

LineString == "\"ok\""

LineArray == "[\"step\",\"scan\"]"

LineTrue == "true"

LineFalse == "false"

LineNull == "null"

\* The lines that are JSON values other than objects, next to one object line.
ValueLines ==
    {LineNumber, LineString, LineArray, LineTrue, LineFalse, LineNull, LineScan}

RemoteLines ==
    {LineEmpty, LineSpaces, LineScan, LineDone, LineStepNum, LineNoStep,
     LineNumber, LineNotJson}

from_str(line) ==
    CASE line = LineEmpty -> Err(<<"EOF while parsing a value at line 1 column 0">>)
      [] line = LineSpaces -> Err(<<"EOF while parsing a value at line 1 column 2">>)
      [] line = LineScan ->
            [kind |-> "Ok",
             v |-> JObj({"step", "data"},
                        [k \in {"step", "data"} |->
                            IF k = "step" THEN JStr("scan")
                            ELSE JObj({"n"}, [j \in {"n"} |-> JNum(1)])])]
      [] line = LineDone ->
            [kind |-> "Ok", v |-> JObj({"step"}, [k \in {"step"} |-> JStr("done")])]
      [] line = LineStepNum ->
            [kind |-> "Ok",
             v |-> JObj({"step", "data"},
                        [k \in {"step", "data"} |->
                            IF k = "step" THEN JNum(5) ELSE JNull])]
      [] line = LineNoStep ->
            [kind |-> "Ok",
             v |-> JObj({"data"}, [k \in {"data"} |-> JArr(<<JNum(1)>>)])]
      [] line = LineNumber -> [kind |-> "Ok", v |-> JNum(42)]
      [] line = LineString -> [kind |-> "Ok", v |-> JStr("ok")]
      [] line = LineArray -> [kind |-> "Ok", v |-> JArr(<<JStr("step"), JStr("scan")>>)]
      [] line = LineTrue -> [kind |-> "Ok", v |-> JBool(TRUE)]
      [] line = LineFalse -> [kind |-> "Ok", v |-> JBool(FALSE)]
      [] line = LineNull -> [kind |-> "Ok", v |-> JNull]
      [] line = LineNotJson -> Err(<<"expected ident at line 1 column 2">>)

\* String::is_empty
is_empty(line) == line = ""

----------------------------------------------------------------------------
(* stream_server_status *)

ServerStatusStep(s, d) == [step |-> s, data |-> d]

\* The synthetic first event.
ConnectingStep == ServerStatusStep("connecting", None)

\* Faulty variant of Emit: the newest event is put in front of the older ones.
Emit_Prepend(payload) == emitted' = <<payload>> \o emitted

\* let _ = app.emit("server-status:step", payload)
Emit(payload) == emitted' = Append(emitted, payload)

\* Faulty variant of StepOf: a non-string step is forwarded instead of "unknown".
StepOf_AnyStep(parsed) ==
    IF ValueGet(parsed, "step").some
    THEN IF ValueGet(parsed, "step").v.t = "str" THEN ValueGet(parsed, "step").v.v
         ELSE "5"
    ELSE "unknown"

\* The step and data extracted from a parsed line.
StepOf(parsed) == UnwrapOr(AndThenAsStr(ValueGet(parsed, "step")), "unknown")

DataOf(parsed) == ValueGet(parsed, "data")

\* Faulty variant of EmitConnecting: the spawn is reached without the event.
EmitConnecting_Skipped ==
    /\ pc = "start"
    /\ pc' = "spawn"
    /\ UNCHANGED <<emitted, result, child, exitCode, remoteOut, nread, stdoutClosed>>
    /\ UNCHANGED <<topVars, snapshotVars>>

\* Emit connecting step
EmitConnecting ==
    /\ pc = "start"
    /\ Emit(ConnectingStep)
    /\ pc' = "spawn"
    /\ UNCHANGED <<result, child, exitCode, remoteOut, nread, stdoutClosed>>
    /\ UNCHANGED <<topVars, snapshotVars>>

\* Command::new("ssh")...spawn(): the child runs, or the spawn error is returned.
\* child.stdout is Some because stdout was configured as Stdio::piped().
SpawnSsh ==
    /\ pc = "spawn"
    /\ \E spawned \in BOOLEAN :
        IF spawned
        THEN /\ child' = "running"
             /\ pc' = "read"
             /\ UNCHANGED result
        ELSE /\ result' = Err(<<"Failed to spawn SSH: ", "No such file or directory">>)
             /\ pc' = "done"
             /\ UNCHANGED child
    /\ UNCHANGED <<emitted, exitCode, remoteOut, nread, stdoutClosed>>
    /\ UNCHANGED <<topVars, snapshotVars>>

\* Faulty variant of ReadLine: a JSON value that is not an object is rejected.
ReadLine_RejectsNonObject ==
    /\ pc = "read"
    /\ nread < Len(remoteOut)
    /\ LET line == remoteOut[nread + 1]
           parsed == from_str(line)
       IN /\ nread' = nread + 1
          /\ IF is_empty(line)
             THEN UNCHANGED <<pc, emitted, result>>
             ELSE IF parsed.kind = "Err"
             THEN /\ result' = Err(<<"JSON parse error: ", parsed.msg[1],
                                     " for line: ", line>>)
                  /\ pc' = "done"
                  /\ UNCHANGED emitted
             ELSE IF parsed.v.t # "obj"
             THEN /\ result' = Err(<<"JSON parse error: ", "expected an object",
                                     " for line: ", line>>)
                  /\ pc' = "done"
                  /\ UNCHANGED emitted
             ELSE /\ Emit(ServerStatusStep(StepOf(parsed.v), DataOf(parsed.v)))
                  /\ UNCHANGED <<pc, result>>
    /\ UNCHANGED <<child, exitCode, remoteOut, stdoutClosed>>
    /\ UNCHANGED <<topVars, snapshotVars>>

\* Faulty variant of ReadLine: a line that does not parse is skipped.
ReadLine_SkipsBadLine ==
    /\ pc = "read"
    /\ nread < Len(remoteOut)
    /\ LET line == remoteOut[nread + 1]
           parsed == from_str(line)
       IN /\ nread' = nread + 1
          /\ IF is_empty(line) \/ parsed.kind = "Err"
             THEN UNCHANGED <<pc, emitted, result>>
             ELSE /\ Emit(ServerStatusStep(StepOf(parsed.v), DataOf(parsed.v)))
                  /\ UNCHANGED <<pc, result>>
    /\ UNCHANGED <<child, exitCode, remoteOut, stdoutClosed>>
    /\ UNCHANGED <<topVars, snapshotVars>>

\* One iteration of `for line in reader.lines()` on a line that was read.
ReadLine ==
    /\ pc = "read"
    /\ nread < Len(remoteOut)
    /\ LET line == remoteOut[nread + 1]
           parsed == from_str(line)
       IN /\ nread' = nread + 1
          /\ IF is_empty(line)
             THEN UNCHANGED <<pc, emitted, result>>
             ELSE IF parsed.kind = "Err"
             THEN /\ result' = Err(<<"JSON parse error: ", parsed.msg[1],
                                     " for line: ", line>>)
                  /\ pc' = "done"
                  /\ UNCHANGED emitted
             ELSE /\ Emit(ServerStatusStep(StepOf(parsed.v), DataOf(parsed.v)))
                  /\ UNCHANGED <<pc, result>>
    /\ UNCHANGED <<child, exitCode, remoteOut, stdoutClosed>>
    /\ UNCHANGED <<topVars, snapshotVars>>

\* Faulty variant of ReadError: the failure is also reported as an event.
ReadError_EmitsErrorStep ==
    /\ pc = "read"
    /\ \E e \in {"stream did not contain valid UTF-8", "Input/output error"} :
        result' = Err(<<"Read error: ", e>>)
    /\ Emit(ServerStatusStep("error", None))
    /\ pc' = "done"
    /\ UNCHANGED <<child, exitCode, remoteOut, nread, stdoutClosed>>
    /\ UNCHANGED <<topVars, snapshotVars>>

\* reader.lines() yields Err: the `?` returns "Read error: {e}".
ReadError ==
    /\ pc = "read"
    /\ \E e \in {"stream did not contain valid UTF-8", "Input/output error"} :
        result' = Err(<<"Read error: ", e>>)
    /\ pc' = "done"
    /\ UNCHANGED <<emitted, child, exitCode, remoteOut, nread, stdoutClosed>>
    /\ UNCHANGED <<topVars, snapshotVars>>

\* Faulty variant of ReadEof: a child that exited non-zero turns EOF into an error.
ReadEof_ChecksStatus ==
    /\ pc = "read"
    /\ nread = Len(remoteOut)
    /\ stdoutClosed
    /\ result' = IF child = "exited" /\ exitCode # 0
                 THEN Err(<<"SSH exited with status ", "255">>)
                 ELSE Ok
    /\ pc' = "done"
    /\ UNCHANGED <<emitted, child, exitCode, remoteOut, nread, stdoutClosed>>
    /\ UNCHANGED <<topVars, snapshotVars>>

\* Faulty variant of ReadEof: an empty pipe is taken for the end of the stream.
ReadEof_WhenDrained ==
    /\ pc = "read"
    /\ nread = Len(remoteOut)
    /\ result' = Ok
    /\ pc' = "done"
    /\ UNCHANGED <<emitted, child, exitCode, remoteOut, nread, stdoutClosed>>
    /\ UNCHANGED <<topVars, snapshotVars>>

\* reader.lines() ends: every buffered line was read and the write end is closed.
\* The loop is left and Ok(()) returned; the Child handle is dropped, which
\* neither kills nor waits for the process.
ReadEof ==
    /\ pc = "read"
    /\ nread = Len(remoteOut)
    /\ stdoutClosed
    /\ result' = Ok
    /\ pc' = "done"
    /\ UNCHANGED <<emitted, child, exitCode, remoteOut, nread, stdoutClosed>>
    /\ UNCHANGED <<topVars, snapshotVars>>

(* The remote side: ssh running /home/ubuntu/server-status.sh *)

RemoteWrite ==
    /\ pc = "read"
    /\ child = "running"
    /\ ~stdoutClosed
    /\ Len(remoteOut) < MaxLines
    /\ \E line \in RemoteLines : remoteOut' = Append(remoteOut, line)
    /\ UNCHANGED <<pc, emitted, result, child, exitCode, nread, stdoutClosed>>
    /\ UNCHANGED <<topVars, snapshotVars>>

\* The remote command writes a line that is a JSON value of any kind.
RemoteWriteValue ==
    /\ pc = "read"
    /\ child = "running"
    /\ ~stdoutClosed
    /\ Len(remoteOut) < MaxLines
    /\ \E line \in ValueLines : remoteOut' = Append(remoteOut, line)
    /\ UNCHANGED <<pc, emitted, result, child, exitCode, nread, stdoutClosed>>
    /\ UNCHANGED <<topVars, snapshotVars>>

RemoteClose ==
    /\ child = "running"
    /\ ~stdoutClosed
    /\ stdoutClosed' = TRUE
    /\ UNCHANGED <<pc, emitted, result, child, exitCode, remoteOut, nread>>
    /\ UNCHANGED <<topVars, snapshotVars>>

\* The child terminates by itself (the bridge never kills it nor waits for it).
ChildExit ==
    /\ child = "running"
    /\ child' = "exited"
    /\ \E code \in {0, 255} : exitCode' = code
    /\ stdoutClosed' = TRUE
    /\ UNCHANGED <<pc, emitted, result, remoteOut, nread>>
    /\ UNCHANGED <<topVars, snapshotVars>>

----------------------------------------------------------------------------
(* get_top_processes *)

BytesPerMb == 1048576

\* let to_mb = |b: u64| b as f64 / 1_048_576.0: the quotient, kept as a fraction.
to_mb(b) == [num |-> b, den |-> BytesPerMb]

\* f64::partial_cmp on two such quotients (never NaN, so always Some).
partial_cmp(x, y) ==
    IF x.num * y.den < y.num * x.den THEN Some("Less")
    ELSE IF x.num * y.den > y.num * x.den THEN Some("Greater")
    ELSE Some("Equal")

\* Faulty variant of CompareByMemory: the operands are not swapped (ascending).
CompareByMemory_Ascending(a, b) ==
    UnwrapOr(partial_cmp(a.memory_mb, b.memory_mb), "Equal")

\* The comparator of both sorts:
\* |a, b| b.memory_mb.partial_cmp(&a.memory_mb).unwrap_or(Ordering::Equal)
CompareByMemory(a, b) == UnwrapOr(partial_cmp(b.memory_mb, a.memory_mb), "Equal")

\* Insert x into the sorted s after every element that does not compare Greater.
InsertSorted(s, x) ==
    LET k == Cardinality({i \in 1..Len(s) : CompareByMemory(s[i], x) # "Greater"})
    IN SubSeq(s, 1, k) \o <<x>> \o SubSeq(s, k + 1, Len(s))

\* slice::sort_by, a stable sort.
RECURSIVE sort_by(_)
sort_by(s) ==
    IF Len(s) = 0 THEN <<>>
    ELSE InsertSorted(sort_by(SubSeq(s, 1, Len(s) - 1)), s[Len(s)])

\* Vec::truncate
truncate(s, n) == SubSeq(s, 1, Min(n, Len(s)))

\* Path::file_name: the last segment, None for the root and for a trailing "..".
\* A path is the sequence of its segments.
file_name(path) ==
    IF Len(path) = 0 \/ path[Len(path)] = ".." THEN None ELSE Some(path[Len(path)])

\* str::parse::<u32>().ok() on the text after the 'p' of an lsof line.
ParseU32(text) ==
    CASE text = "1" -> Some(1)
      [] text = "2" -> Some(2)
      [] text = "3" -> Some(3)
      [] text = "4" -> Some(4)
      [] OTHER -> None

\* What the generic library reports per pid besides the memory figures.
NameOf(pid) == <<"proc", pid>>

CwdOf(pid) ==
    CASE pid = 1 -> Some(<<"home", "user", "project">>)
      [] pid = 2 -> None
      [] OTHER -> Some(<<>>)

\* Faulty variant of Footprint: the rusage buffer is read whatever the call returned.
Footprint_IgnoresFailure(p) == p.ri_phys_footprint

\* The footprint of one process on the native path: ri_phys_footprint when
\* proc_pid_rusage returns 0, else sysinfo's process.memory().
Footprint(p) == IF p.rusage_ok THEN p.ri_phys_footprint ELSE p.memory

ProcessMemoryMacos(p) ==
    [pid |-> p.pid, name |-> NameOf(p.pid), cwd |-> None,
     memory_mb |-> to_mb(Footprint(p)), virtual_mb |-> to_mb(p.virtual_memory)]

ProcessMemoryGeneric(p) ==
    [pid |-> p.pid, name |-> NameOf(p.pid),
     cwd |-> IF CwdOf(p.pid).some THEN file_name(CwdOf(p.pid).v) ELSE None,
     memory_mb |-> to_mb(p.memory), virtual_mb |-> to_mb(p.virtual_memory)]

\* processes.iter_mut().find(|p| p.pid == pid): index of the first match, 0 if none.
FindPid(processes, pid) ==
    LET hits == {i \in 1..Len(processes) : processes[i].pid = pid}
    IN IF hits = {} THEN 0 ELSE CHOOSE i \in hits : \A j \in hits : i <= j

\* Faulty variant of LsofLoop: a 'p' line whose id does not parse leaves the
\* previous process id current.
RECURSIVE LsofLoop_KeepsPid(_, _, _, _)
LsofLoop_KeepsPid(lines, i, current_pid, processes) ==
    IF i > Len(lines) THEN processes
    ELSE LET line == lines[i]
         IN IF line.prefix = "p"
            THEN LsofLoop_KeepsPid(lines, i + 1,
                                   IF ParseU32(line.rest).some THEN ParseU32(line.rest)
                                   ELSE current_pid,
                                   processes)
            ELSE IF line.prefix = "n"
            THEN IF current_pid.some /\ FindPid(processes, current_pid.v) # 0
                 THEN LsofLoop_KeepsPid(lines, i + 1, current_pid,
                               [processes EXCEPT ![FindPid(processes, current_pid.v)].cwd =
                                    file_name(line.rest)])
                 ELSE LsofLoop_KeepsPid(lines, i + 1, current_pid, processes)
            ELSE LsofLoop_KeepsPid(lines, i + 1, current_pid, processes)

\* The loop over stdout.lines() of lsof, from line i on.
RECURSIVE LsofLoop(_, _, _, _)
LsofLoop(lines, i, current_pid, processes) ==
    IF i > Len(lines) THEN processes
    ELSE LET line == lines[i]
         IN IF line.prefix = "p"
            THEN LsofLoop(lines, i + 1, ParseU32(line.rest), processes)
            ELSE IF line.prefix = "n"
            THEN IF current_pid.some /\ FindPid(processes, current_pid.v) # 0
                 THEN LsofLoop(lines, i + 1, current_pid,
                               [processes EXCEPT ![FindPid(processes, current_pid.v)].cwd =
                                    file_name(line.rest)])
                 ELSE LsofLoop(lines, i + 1, current_pid, processes)
            ELSE LsofLoop(lines, i + 1, current_pid, processes)

\* Get cwd for top processes via lsof: skipped for an empty list, and without
\* effect when lsof cannot be run or exits non-zero.
FillCwd(processes) ==
    IF Len(processes) = 0 THEN processes
    ELSE IF lsof.kind = "spawn_failed" THEN processes
    ELSE IF ~lsof.success THEN processes
    ELSE LsofLoop(lsof.stdout, 1, None, processes)

\* let pids = processes.iter().map(|p| p.pid.to_string()): the -p argument of lsof.
LsofPids(processes) == [i \in 1..Len(processes) |-> processes[i].pid]

Returned(platform, list) == [kind |-> "returned", platform |-> platform, list |-> list]

\* get_top_processes, macOS
GetTopProcessesMacos ==
    /\ topResult = Pending
    /\ LET collected == [i \in 1..Len(procs) |-> ProcessMemoryMacos(procs[i])]
           sorted == sort_by(collected)
           top == truncate(sorted, limit)
       IN /\ topResult' = Returned("macos", FillCwd(top))
          /\ lsofArgs' = IF Len(top) = 0 THEN None ELSE Some(LsofPids(top))
    /\ UNCHANGED <<procs, limit, lsof>>
    /\ UNCHANGED <<streamVars, snapshotVars>>

\* get_top_processes, Windows/Linux
GetTopProcessesGeneric ==
    /\ topResult = Pending
    /\ LET collected == [i \in 1..Len(procs) |-> ProcessMemoryGeneric(procs[i])]
           sorted == sort_by(collected)
       IN topResult' = Returned("generic", truncate(sorted, limit))
    /\ UNCHANGED <<procs, limit, lsof, lsofArgs>>
    /\ UNCHANGED <<streamVars, snapshotVars>>

\* One entry of sys.processes() together with what proc_pid_rusage does for it;
\* the memory figures are byte counts.
\* A failed proc_pid_rusage leaves the zeroed buffer, so ri_phys_footprint is 0.
ProcessEntries ==
    {[pid |-> pid, rusage_ok |-> ok, ri_phys_footprint |-> phys, memory |-> mem,
      virtual_memory |-> 4 * mem] :
        pid \in 1..MaxProcs, ok \in BOOLEAN,
        phys \in {0, 100, 200},
        mem \in {200, 300}}

\* Every process table of at most MaxProcs entries: pids are unique (the keys
\* of a map), in any iteration order.
ProcessTables ==
    UNION {{t \in [1..n -> {e \in ProcessEntries : e.rusage_ok <=> e.ri_phys_footprint # 0}] :
                \A i, j \in 1..n : i # j => t[i].pid # t[j].pid} : n \in 0..MaxProcs}

LsofLine(prefix, rest) == [prefix |-> prefix, rest |-> rest]

LsofOutcomes ==
    {[kind |-> "spawn_failed"],
     [kind |-> "exited", success |-> FALSE, stdout |-> <<>>],
     [kind |-> "exited", success |-> TRUE,
      stdout |-> <<LsofLine("p", "1"), LsofLine("f", "cwd"),
                   LsofLine("n", <<"Users", "me", "organizer">>)>>]}

StreamIdle ==
    /\ pc = "start"
    /\ emitted = <<>>
    /\ result = Pending
    /\ child = "none"
    /\ exitCode = -1
    /\ remoteOut = <<>>
    /\ nread = 0
    /\ stdoutClosed = FALSE

TopInit ==
    /\ procs \in ProcessTables
    /\ limit \in 0..(MaxProcs + 1)
    /\ lsof \in LsofOutcomes
    /\ lsofArgs = None
    /\ topResult = Pending

InitTop == StreamIdle /\ TopInit /\ SnapshotIdle

NextTop ==
    \/ GetTopProcessesMacos
    \/ GetTopProcessesGeneric

SpecTop == InitTop /\ [][NextTop]_vars

(* get_top_processes (macos) against every short lsof output *)

MaxLsofLines == 3

\* The lines lsof -Fn can print that the loop tells apart.
LsofLines ==
    {LsofLine("p", "1"), LsofLine("p", "2"), LsofLine("p", "x"),
     LsofLine("n", <<"Users", "me", "organizer">>), LsofLine("n", <<>>)}

LsofOutputs ==
    {[kind |-> "spawn_failed"],
     [kind |-> "exited", success |-> FALSE,
      stdout |-> <<LsofLine("p", "1"), LsofLine("n", <<"Users", "me", "organizer">>)>>]}
    \cup {[kind |-> "exited", success |-> TRUE, stdout |-> out] :
            out \in UNION {[1..n -> LsofLines] : n \in 0..MaxLsofLines}}

\* Process tables whose footprint depends on the pid alone, in any order.
LsofProcessTables ==
    {t \in ProcessTables :
        \A i \in 1..Len(t) :
            /\ t[i].rusage_ok
            /\ t[i].ri_phys_footprint = (IF t[i].pid = 2 THEN 200 ELSE 100)
            /\ t[i].memory = 200}

InitLsof ==
    /\ StreamIdle
    /\ SnapshotIdle
    /\ procs \in LsofProcessTables
    /\ limit \in 0..(MaxProcs + 1)
    /\ lsof \in LsofOutputs
    /\ lsofArgs = None
    /\ topResult = Pending

NextLsof == GetTopProcessesMacos

SpecLsof == InitLsof /\ [][NextLsof]_vars

----------------------------------------------------------------------------
StreamInit ==
    /\ pc = "start"
    /\ emitted = <<>>
    /\ result = Pending
    /\ child = "none"
    /\ exitCode = -1
    /\ remoteOut = <<>>
    /\ nread = 0
    /\ stdoutClosed = FALSE

TopIdle ==
    /\ procs = <<>>
    /\ limit = 0
    /\ lsof = [kind |-> "spawn_failed"]
    /\ lsofArgs = None
    /\ topResult = Pending

Init == StreamInit /\ TopIdle /\ SnapshotIdle

Next ==
    \/ EmitConnecting
    \/ SpawnSsh
    \/ ReadLine
    \/ ReadError
    \/ ReadEof
    \/ RemoteWrite
    \/ RemoteClose
    \/ ChildExit

Spec == Init /\ [][Next]_vars

\* The same bridge against a remote command that writes JSON values of every
\* kind.
NextValues ==
    \/ EmitConnecting
    \/ SpawnSsh
    \/ ReadLine
    \/ ReadError
    \/ ReadEof
    \/ RemoteWriteValue
    \/ RemoteClose
    \/ ChildExit

SpecValues == Init /\ [][NextValues]_vars

\* The reader loop runs whenever a line or the end of the stream is available:
\* the command's task is scheduled and a blocking read returns once the pipe
\* holds data or is closed.
SpecFair == Init /\ [][Next]_vars /\ WF_vars(ReadLine \/ ReadEof)

-----------------------------------------------------------------------------
(* get_process_details *)

MaxPid == 2

\* sysinfo::ProcessStatus (Unknown stands for Unknown(u32)).
ProcessStatus ==
    {"Idle", "Run", "Sleep", "Stop", "Zombie", "Tracing", "Dead", "Wakekill",
     "Waking", "Parked", "LockBlocked", "UninterruptibleDiskSleep", "Unknown"}

\* Faulty variant of StatusMapping: an unrecognised state keeps its own name.
StatusMapping_PassThrough(s) ==
    CASE s = "Run" -> "Running"
      [] s = "Sleep" -> "Sleeping"
      [] s = "Stop" -> "Stopped"
      [] s = "Zombie" -> "Zombie"
      [] s = "Idle" -> "Idle"
      [] OTHER -> s

\* match process.status() { ... _ => "Unknown" }
StatusMapping(s) ==
    CASE s = "Run" -> "Running"
      [] s = "Sleep" -> "Sleeping"
      [] s = "Stop" -> "Stopped"
      [] s = "Zombie" -> "Zombie"
      [] s = "Idle" -> "Idle"
      [] OTHER -> "Unknown"

\* str::trim on the outputs ps is given here.
Trim(text) ==
    CASE text = "root\n" -> "root"
      [] text = "\n" -> ""
      [] text = " 12.5\n" -> "12.5"
      [] OTHER -> text

\* str::parse::<f32>().ok(), the value in tenths of a percent point.
ParseF32(text) ==
    CASE text = "12.5" -> Some(125)
      [] text = "0.0" -> Some(0)
      [] OTHER -> None

\* The outcome of Command::output(): Err, or an exit status with the stdout.
SpawnFailed == [kind |-> "spawn_failed"]
Exited(success, stdout) == [kind |-> "exited", success |-> success, stdout |-> stdout]

\* ps -o user= -p <pid>: the owner, absent unless ps succeeds with a name.
UserViaPs(o) ==
    IF o.kind = "exited" /\ o.success
    THEN IF is_empty(Trim(o.stdout)) THEN None ELSE Some(Trim(o.stdout))
    ELSE None

\* The first line of the lsof output that starts with 'n', without the 'n'.
FirstNLine(lines) ==
    IF \E i \in 1..Len(lines) : lines[i].prefix = "n"
    THEN LET i == CHOOSE j \in 1..Len(lines) :
                      /\ lines[j].prefix = "n"
                      /\ \A k \in 1..(j - 1) : lines[k].prefix # "n"
         IN Some(lines[i].rest)
    ELSE None

\* lsof -d cwd -a -p <pid> -Fn, then process.cwd() when lsof gave nothing.
CwdViaLsof(o, process) ==
    LET probed == IF o.kind = "exited" /\ o.success THEN FirstNLine(o.stdout) ELSE None
    IN IF probed.some THEN probed ELSE process.cwd

\* get_cpu_via_ps: the exit status of ps is not consulted.
get_cpu_via_ps(o) ==
    IF o.kind = "exited" THEN UnwrapOr(ParseF32(Trim(o.stdout)), 0) ELSE 0

\* get_process_details, macOS: one refresh, then the lookup.
GetProcessDetailsMacos ==
    /\ detailsIn.kind = "call"
    /\ detailsResult = Pending
    /\ LET pid == detailsIn.pid
           process == detailsIn.process
       IN detailsResult' =
            IF pid \notin detailsIn.alive
            THEN ErrOn("macos", <<"Process ", ToString(pid), " not found">>)
            ELSE OkOn("macos",
                   [pid |-> pid,
                    status |-> StatusMapping(process.status),
                    user |-> UserViaPs(detailsIn.psUser),
                    cwd |-> CwdViaLsof(detailsIn.lsofCwd, process),
                    cpu_usage |-> get_cpu_via_ps(detailsIn.psCpu),
                    memory_mb |-> IF process.rusage_ok
                                  THEN to_mb(process.ri_phys_footprint)
                                  ELSE to_mb(process.memory),
                    disk_read_bytes |-> IF process.rusage_ok
                                        THEN process.ri_diskio_bytesread ELSE 0])
    /\ UNCHANGED <<detailsIn, memIn, memResult, diskIn, diskResult>>
    /\ UNCHANGED <<streamVars, topVars>>

\* get_process_details, Windows/Linux: two refreshes 100 ms apart, then the
\* lookup in what the second refresh left.
GetProcessDetailsGeneric ==
    /\ detailsIn.kind = "call"
    /\ detailsResult = Pending
    /\ LET pid == detailsIn.pid
           process == detailsIn.process
       IN detailsResult' =
            IF pid \notin detailsIn.aliveLater
            THEN ErrOn("generic", <<"Process ", ToString(pid), " not found">>)
            ELSE OkOn("generic",
                   [pid |-> pid,
                    status |-> StatusMapping(process.status),
                    user |-> None,
                    cwd |-> process.cwd,
                    cpu_usage |-> process.cpu_usage,
                    memory_mb |-> to_mb(process.memory),
                    disk_read_bytes |-> process.disk_usage_read_bytes])
    /\ UNCHANGED <<detailsIn, memIn, memResult, diskIn, diskResult>>
    /\ UNCHANGED <<streamVars, topVars>>

\* What sysinfo and proc_pid_rusage hold about the process asked for.
ProcessOf(status, cwd, ok) ==
    [status |-> status, cwd |-> cwd, cpu_usage |-> 30,
     rusage_ok |-> ok, ri_phys_footprint |-> IF ok THEN 100 ELSE 0, memory |-> 200,
     ri_diskio_bytesread |-> IF ok THEN 7 ELSE 0, disk_usage_read_bytes |-> 5]

LibCwds == {None, Some(<<"lib", "cwd">>)}

PsUserOutcomes ==
    {SpawnFailed, Exited(FALSE, "root\n"), Exited(TRUE, "\n"), Exited(TRUE, "root\n")}

LsofCwdOutcomes ==
    {SpawnFailed,
     Exited(FALSE, <<LsofLine("p", "1"), LsofLine("n", <<"Users", "me", "organizer">>)>>),
     Exited(TRUE, <<LsofLine("p", "1"), LsofLine("f", "cwd")>>),
     Exited(TRUE, <<LsofLine("p", "1"), LsofLine("f", "cwd"),
                    LsofLine("n", <<"Users", "me", "organizer">>),
                    LsofLine("n", <<"tmp">>)>>)}

PsCpuOutcomes ==
    {SpawnFailed, Exited(TRUE, " 12.5\n"), Exited(TRUE, "garbage"),
     Exited(FALSE, ""), Exited(FALSE, " 12.5\n")}

\* Every pid asked for against every process table at both refreshes and every
\* library state, with the probes working ...
DetailsCallsByStatus ==
    {[kind |-> "call", pid |-> pid, alive |-> a, aliveLater |-> b,
      process |-> ProcessOf(st, Some(<<"lib", "cwd">>), TRUE),
      psUser |-> Exited(TRUE, "root\n"),
      lsofCwd |-> Exited(TRUE, <<LsofLine("p", "1"), LsofLine("f", "cwd")>>),
      psCpu |-> Exited(TRUE, " 12.5\n")] :
        pid \in 1..MaxPid, a \in SUBSET (1..MaxPid), b \in SUBSET (1..MaxPid),
        st \in ProcessStatus}

\* ... and every combination of probe outcomes for a process that exists.
DetailsCallsByProbe ==
    {[kind |-> "call", pid |-> 1, alive |-> {1}, aliveLater |-> {1},
      process |-> ProcessOf("Run", cwd, ok),
      psUser |-> u, lsofCwd |-> l, psCpu |-> c] :
        cwd \in LibCwds, ok \in BOOLEAN,
        u \in PsUserOutcomes, l \in LsofCwdOutcomes, c \in PsCpuOutcomes}

InitDetails ==
    /\ StreamIdle
    /\ TopIdle
    /\ MemoryIdle
    /\ DiskIdle
    /\ detailsIn \in DetailsCallsByStatus \cup DetailsCallsByProbe
    /\ detailsResult = Pending

NextDetails ==
    \/ GetProcessDetailsMacos
    \/ GetProcessDetailsGeneric

SpecDetails == InitDetails /\ [][NextDetails]_vars

-----------------------------------------------------------------------------
(* get_memory_info *)

MaxPages == 2
MaxMem == 2

BytesPerGb == 1073741824

\* u64::saturating_sub
saturating_sub(a, b) == IF a > b THEN a - b ELSE 0

\* b as f64 / 1_073_741_824.0, kept as the exact quotient: dividing by a power
\* of two is exact for every count below 2^53.
to_gb(b) == [num |-> b, den |-> BytesPerGb]

\* (pages as f64 * page_size as f64) / 1_073_741_824.0
page_to_gb(pages, page_size) == [num |-> pages * page_size, den |-> BytesPerGb]

\* x + y on two such quotients (exact: both are multiples of 2^-30 below 2^53).
AddGb(x, y) == [num |-> x.num + y.num, den |-> BytesPerGb]

ReturnedInfo(platform, path, info) ==
    [kind |-> "returned", platform |-> platform, path |-> path, value |-> info]

\* str::parse::<u64>().ok() on the trimmed output of sysctl -n hw.memsize.
ParseU64(text) ==
    CASE text = "65536" -> Some(65536)
      [] text = "0" -> Some(0)
      [] OTHER -> None

\* Command::new("sysctl")...output().ok().and_then(parse).unwrap_or(0): the
\* exit status is not consulted.
TotalBytesViaSysctl(o) ==
    IF o.kind = "exited"
    THEN UnwrapOr(ParseU64(IF o.stdout = "65536\n" THEN "65536" ELSE o.stdout), 0)
    ELSE 0

\* Faulty variant of get_memory_info_fallback: the wired figure of the failed
\* kernel readout is kept.
get_memory_info_fallback_KeepsWired(m) ==
    ReturnedInfo("macos", "fallback",
        [total_gb |-> to_gb(m.lib.total_memory),
         used_gb |-> to_gb(m.lib.used_memory),
         available_gb |-> to_gb(saturating_sub(m.lib.total_memory, m.lib.used_memory)),
         free_gb |-> to_gb(m.lib.free_memory),
         app_gb |-> to_gb(0),
         wired_gb |-> page_to_gb(m.vm_stat.wire_count, m.page_size),
         compressed_gb |-> to_gb(0),
         cached_gb |-> to_gb(0),
         swap_total_gb |-> to_gb(m.lib.total_swap),
         swap_used_gb |-> to_gb(m.lib.used_swap)])

get_memory_info_fallback(m) ==
    ReturnedInfo("macos", "fallback",
        [total_gb |-> to_gb(m.lib.total_memory),
         used_gb |-> to_gb(m.lib.used_memory),
         available_gb |-> to_gb(saturating_sub(m.lib.total_memory, m.lib.used_memory)),
         free_gb |-> to_gb(m.lib.free_memory),
         app_gb |-> to_gb(0),
         wired_gb |-> to_gb(0),
         compressed_gb |-> to_gb(0),
         cached_gb |-> to_gb(0),
         swap_total_gb |-> to_gb(m.lib.total_swap),
         swap_used_gb |-> to_gb(m.lib.used_swap)])

\* Faulty variant of FreePages: the subtraction does not saturate.
FreePages_Unsaturated(vm_stat) == vm_stat.free_count - vm_stat.speculative_count

\* let free_pages = free_count.saturating_sub(speculative_count)
FreePages(vm_stat) == saturating_sub(vm_stat.free_count, vm_stat.speculative_count)

\* The body of get_memory_info (macOS) after host_statistics64 returned 0.
MemoryInfoNative(m) ==
    LET vm_stat == m.vm_stat
        free_pages == FreePages(vm_stat)
        app_pages == saturating_sub(vm_stat.internal_page_count, vm_stat.purgeable_count)
        cached_pages == vm_stat.purgeable_count + vm_stat.external_page_count
        app_gb == page_to_gb(app_pages, m.page_size)
        wired_gb == page_to_gb(vm_stat.wire_count, m.page_size)
        compressed_gb == page_to_gb(vm_stat.compressor_page_count, m.page_size)
    IN ReturnedInfo("macos", "native",
        [total_gb |-> to_gb(TotalBytesViaSysctl(m.sysctl)),
         used_gb |-> AddGb(AddGb(app_gb, wired_gb), compressed_gb),
         available_gb |-> page_to_gb(free_pages + vm_stat.inactive_count, m.page_size),
         free_gb |-> page_to_gb(free_pages, m.page_size),
         app_gb |-> app_gb,
         wired_gb |-> wired_gb,
         compressed_gb |-> compressed_gb,
         cached_gb |-> page_to_gb(cached_pages, m.page_size),
         swap_total_gb |-> to_gb(m.lib.total_swap),
         swap_used_gb |-> to_gb(m.lib.used_swap)])

\* get_memory_info, macOS
GetMemoryInfoMacos ==
    /\ memIn.kind = "call"
    /\ memResult = Pending
    /\ memResult' = IF memIn.kr # 0
                    THEN get_memory_info_fallback(memIn)
                    ELSE MemoryInfoNative(memIn)
    /\ UNCHANGED <<memIn, detailsIn, detailsResult, diskIn, diskResult>>
    /\ UNCHANGED <<streamVars, topVars>>

\* get_memory_info, Windows/Linux
GetMemoryInfoGeneric ==
    /\ memIn.kind = "call"
    /\ memResult = Pending
    /\ LET lib == memIn.lib
       IN memResult' = ReturnedInfo("generic", "generic",
            [total_gb |-> to_gb(lib.total_memory),
             used_gb |-> to_gb(lib.used_memory),
             available_gb |-> IF lib.available_memory > 0
                              THEN to_gb(lib.available_memory)
                              ELSE to_gb(saturating_sub(lib.total_memory, lib.used_memory)),
             free_gb |-> to_gb(lib.free_memory),
             app_gb |-> to_gb(0),
             wired_gb |-> to_gb(0),
             compressed_gb |-> to_gb(0),
             cached_gb |-> to_gb(0),
             swap_total_gb |-> to_gb(lib.total_swap),
             swap_used_gb |-> to_gb(lib.used_swap)])
    /\ UNCHANGED <<memIn, detailsIn, detailsResult, diskIn, diskResult>>
    /\ UNCHANGED <<streamVars, topVars>>

\* The page counters of vm_statistics64 the code reads.
VmStat(free, spec, internal, purgeable, wire, compressor, inactive, external) ==
    [free_count |-> free, speculative_count |-> spec,
     internal_page_count |-> internal, purgeable_count |-> purgeable,
     wire_count |-> wire, compressor_page_count |-> compressor,
     inactive_count |-> inactive, external_page_count |-> external]

\* What sysinfo reports after refresh_memory, in bytes; each figure is at most
\* the total it is a part of.
LibMemory(total, used, available, free, swap_total, swap_used) ==
    [total_memory |-> total, used_memory |-> used, available_memory |-> available,
     free_memory |-> free, total_swap |-> swap_total, used_swap |-> swap_used]

PageSizes == {4096, 16384}

SysctlOutcomes == {SpawnFailed, Exited(TRUE, "65536\n"), Exited(TRUE, "garbage")}

\* Every value of the page counters, the kernel call succeeding ...
MemoryCallsByCounters ==
    {[kind |-> "call", kr |-> 0, page_size |-> ps,
      vm_stat |-> VmStat(f, s, i, p, w, c, n, e),
      sysctl |-> Exited(TRUE, "65536\n"),
      lib |-> LibMemory(2, 1, 1, 1, 1, 0)] :
        ps \in PageSizes,
        f \in 0..MaxPages, s \in 0..MaxPages, i \in 0..MaxPages, p \in 0..MaxPages,
        w \in 0..1, c \in 0..1, n \in 0..1, e \in 0..1}

\* ... and every report of the library, the kernel call succeeding or not.
MemoryCallsByLibrary ==
    {[kind |-> "call", kr |-> kr, page_size |-> 4096,
      vm_stat |-> VmStat(2, 1, 2, 1, 1, 1, 1, 1),
      sysctl |-> o,
      lib |-> LibMemory(t, u, a, f, st, su)] :
        kr \in {0, 5}, o \in SysctlOutcomes,
        t \in 0..MaxMem, u \in 0..MaxMem, a \in 0..MaxMem, f \in 0..MaxMem,
        st \in 0..1, su \in 0..1}

MemoryCalls ==
    {m \in MemoryCallsByCounters \cup MemoryCallsByLibrary :
        /\ m.lib.used_memory <= m.lib.total_memory
        /\ m.lib.available_memory <= m.lib.total_memory
        /\ m.lib.free_memory <= m.lib.total_memory
        /\ m.lib.used_swap <= m.lib.total_swap}

InitMemory ==
    /\ StreamIdle
    /\ TopIdle
    /\ DetailsIdle
    /\ DiskIdle
    /\ memIn \in MemoryCalls
    /\ memResult = Pending

NextMemory ==
    \/ GetMemoryInfoMacos
    \/ GetMemoryInfoGeneric

SpecMemory == InitMemory /\ [][NextMemory]_vars

-----------------------------------------------------------------------------
(* get_disk_space, get_disk_space_detailed *)

MaxBytes == 3
MaxDisks == 2

DiskOk(platform, cmd, v) == [kind |-> "Ok", platform |-> platform, cmd |-> cmd, value |-> v]
DiskErr(platform, cmd, parts) == [kind |-> "Err", platform |-> platform, cmd |-> cmd, msg |-> parts]

\* The output of the swift helper is a sequence of tokens: decimal numbers,
\* the separator "|", white space, and other text.
IsWhite(tok) == tok \in {"\n", " "}

\* str::trim
RECURSIVE TrimTokens(_)
TrimTokens(toks) ==
    IF Len(toks) = 0 THEN toks
    ELSE IF IsWhite(toks[1]) THEN TrimTokens(Tail(toks))
    ELSE IF IsWhite(toks[Len(toks)]) THEN TrimTokens(SubSeq(toks, 1, Len(toks) - 1))
    ELSE toks

\* str::split('|'): the pieces between separators, empty pieces included.
RECURSIVE SplitBar(_, _)
SplitBar(toks, piece) ==
    IF Len(toks) = 0 THEN <<piece>>
    ELSE IF toks[1] = "|" THEN <<piece>> \o SplitBar(Tail(toks), <<>>)
    ELSE SplitBar(Tail(toks), Append(piece, toks[1]))

\* The numbers whose decimal form the helper can print here.
Printable == (0..9) \cup {65536}

\* str::parse::<u64>() on one piece: Some(n) for a lone decimal number.
ParsePiece(piece) ==
    IF Len(piece) = 1 /\ \E n \in Printable : ToString(n) = piece[1]
    THEN Some(CHOOSE n \in Printable : ToString(n) = piece[1])
    ELSE None

\* Faulty variant of UsedBytesNative: the purgeable space counts as used.
UsedBytesNative_FromAvailable(total, available, awp) == saturating_sub(total, available)

\* let used_bytes = total_bytes.saturating_sub(available_with_purgeable_bytes)
UsedBytesNative(total, available, awp) == saturating_sub(total, awp)

DiskSpaceDetailed(total, available, awp, purgeable, used) ==
    [total_gb |-> to_gb(total),
     available_gb |-> to_gb(available),
     available_with_purgeable_gb |-> to_gb(awp),
     purgeable_gb |-> to_gb(purgeable),
     used_gb |-> to_gb(used)]

\* get_disk_space_detailed, macOS
GetDiskSpaceDetailedMacos ==
    /\ diskIn.kind = "call"
    /\ diskResult = Pending
    /\ LET o == diskIn.swift
           cmd == "get_disk_space_detailed"
       IN diskResult' =
            IF o.kind = "spawn_failed"
            THEN DiskErr("macos", cmd, <<"Failed to run swift: ", "No such file or directory">>)
            ELSE IF ~o.success
            THEN DiskErr("macos", cmd, <<"Swift failed: ", o.stderr>>)
            ELSE LET parts == SplitBar(TrimTokens(o.stdout), <<>>)
                 IN IF Len(parts) # 3
                    THEN DiskErr("macos", cmd, <<"Invalid swift output: ", o.stdout>>)
                    ELSE IF ~ParsePiece(parts[1]).some
                    THEN DiskErr("macos", cmd, <<"Failed to parse total">>)
                    ELSE IF ~ParsePiece(parts[2]).some
                    THEN DiskErr("macos", cmd, <<"Failed to parse available">>)
                    ELSE IF ~ParsePiece(parts[3]).some
                    THEN DiskErr("macos", cmd, <<"Failed to parse available for important">>)
                    ELSE LET total_bytes == ParsePiece(parts[1]).v
                             available_bytes == ParsePiece(parts[2]).v
                             awp_bytes == ParsePiece(parts[3]).v
                         IN DiskOk("macos", cmd,
                              DiskSpaceDetailed(total_bytes, available_bytes, awp_bytes,
                                  saturating_sub(awp_bytes, available_bytes),
                                  UsedBytesNative(total_bytes, available_bytes, awp_bytes)))
    /\ UNCHANGED <<diskIn, detailsIn, detailsResult, memIn, memResult>>
    /\ UNCHANGED <<streamVars, topVars>>

IsRootMount(d) == d.mount_point = "/" \/ d.mount_point = "C:\\"

\* Faulty variant of SelectDisk: the first enumerated volume is always taken.
SelectDisk_FirstOnly(disks) ==
    IF Len(disks) > 0 THEN Some(disks[1]) ELSE None

\* disks.iter().find(root).or_else(|| disks.iter().next())
SelectDisk(disks) ==
    IF \E i \in 1..Len(disks) : IsRootMount(disks[i])
    THEN LET i == CHOOSE j \in 1..Len(disks) :
                      /\ IsRootMount(disks[j])
                      /\ \A k \in 1..(j - 1) : ~IsRootMount(disks[k])
         IN Some(disks[i])
    ELSE IF Len(disks) > 0 THEN Some(disks[1])
    ELSE None

\* get_disk_space, Windows/Linux
GetDiskSpaceGeneric ==
    /\ diskIn.kind = "call"
    /\ diskResult = Pending
    /\ LET disk == SelectDisk(diskIn.disks)
           cmd == "get_disk_space"
       IN diskResult' =
            IF ~disk.some
            THEN DiskErr("generic", cmd, <<"No disk found">>)
            ELSE DiskOk("generic", cmd,
                   [free_gb |-> to_gb(disk.v.available_space),
                    total_gb |-> to_gb(disk.v.total_space)])
    /\ UNCHANGED <<diskIn, detailsIn, detailsResult, memIn, memResult>>
    /\ UNCHANGED <<streamVars, topVars>>

\* get_disk_space_detailed, Windows/Linux
GetDiskSpaceDetailedGeneric ==
    /\ diskIn.kind = "call"
    /\ diskResult = Pending
    /\ LET disk == SelectDisk(diskIn.disks)
           cmd == "get_disk_space_detailed"
       IN diskResult' =
            IF ~disk.some
            THEN DiskErr("generic", cmd, <<"No disk found">>)
            ELSE LET total_bytes == disk.v.total_space
                     available_bytes == disk.v.available_space
                 IN DiskOk("generic", cmd,
                      DiskSpaceDetailed(total_bytes, available_bytes, available_bytes, 0,
                          saturating_sub(total_bytes, available_bytes)))
    /\ UNCHANGED <<diskIn, detailsIn, detailsResult, memIn, memResult>>
    /\ UNCHANGED <<streamVars, topVars>>

\* The helper prints "total|available|availableForImportantUsage\n".
SwiftPrints(total, available, awp) ==
    <<ToString(total), "|", ToString(available), "|", ToString(awp), "\n">>

SwiftExited(success, stdout, stderr) ==
    [kind |-> "exited", success |-> success, stdout |-> stdout, stderr |-> stderr]

\* Every triple of byte counts the helper can print, and the ways the helper
\* can fail or print something else.
SwiftOutcomes ==
    {SpawnFailed,
     SwiftExited(FALSE, <<>>, "Fatal error"),
     SwiftExited(FALSE, SwiftPrints(3, 1, 2), ""),
     SwiftExited(TRUE, <<"\n">>, ""),
     SwiftExited(TRUE, <<"3", "|", "1", "\n">>, ""),
     SwiftExited(TRUE, <<"3", "|", "1", "|", "2", "|", "0", "\n">>, ""),
     SwiftExited(TRUE, <<"x", "|", "1", "|", "2", "\n">>, ""),
     SwiftExited(TRUE, <<"3", "|", "-1", "|", "2", "\n">>, ""),
     SwiftExited(TRUE, <<"3", "|", "1", "|", "\n">>, ""),
     SwiftExited(TRUE, <<"3", "|", "1", "|", "2", " ", "GB", "\n">>, "")}
    \cup {SwiftExited(TRUE, SwiftPrints(t, a, w), "") :
            t \in 0..MaxBytes, a \in 0..MaxBytes, w \in 0..MaxBytes}

Disk(mount, total, available) ==
    [mount_point |-> mount, total_space |-> total, available_space |-> available]

MountPoints == {"/", "C:\\", "/data", "/boot"}

\* Every enumeration of at most MaxDisks volumes over the mount points (the
\* i-th volume has i bytes available, which tells the volumes apart) ...
DiskListsByMount ==
    UNION {{[i \in 1..n |-> Disk(m[i], MaxDisks + 1, i)] : m \in [1..n -> MountPoints]} :
             n \in 0..MaxDisks}

\* ... and a single volume with every pair of byte counts.
DiskListsByBytes ==
    {<<Disk(m, t, a)>> : m \in {"/", "/data"}, t \in 0..MaxBytes, a \in 0..MaxBytes}

DiskCalls ==
    {[kind |-> "call", swift |-> o, disks |-> <<Disk("/", 3, 1)>>] : o \in SwiftOutcomes}
    \cup {[kind |-> "call", swift |-> SwiftExited(TRUE, SwiftPrints(3, 1, 2), ""),
           disks |-> l] : l \in DiskListsByMount \cup DiskListsByBytes}

InitDisk ==
    /\ StreamIdle
    /\ TopIdle
    /\ DetailsIdle
    /\ MemoryIdle
    /\ diskIn \in DiskCalls
    /\ diskResult = Pending

NextDisk ==
    \/ GetDiskSpaceDetailedMacos
    \/ GetDiskSpaceGeneric
    \/ GetDiskSpaceDetailedGeneric

SpecDisk == InitDisk /\ [][NextDisk]_vars

----------------------------------------------------------------------------
(* Claims about stream_server_status *)

LinesRead == SubSeq(remoteOut, 1, nread)

ValidJson(line) == from_str(line).kind = "Ok"

\* The number of lines among the first n read that are non-empty and parse.
CountForwarded(n) ==
    Cardinality({i \in 1..n : ~is_empty(remoteOut[i]) /\ ValidJson(remoteOut[i])})

IsParseFailure(r) == r.kind = "Err" /\ r.msg[1] = "JSON parse error: "

IsReadFailure(r) == r.kind = "Err" /\ r.msg[1] = "Read error: "

IsSpawnFailure(r) == r.kind = "Err" /\ r.msg[1] = "Failed to spawn SSH: "

\* The event the protocol prescribes for each well-formed line of RemoteLines.
ExpectedEvent(line) ==
    CASE line = LineScan ->
            [step |-> "scan",
             data |-> [some |-> TRUE,
                       v |-> [t |-> "obj", keys |-> {"n"},
                              at |-> [j \in {"n"} |-> [t |-> "num", v |-> 1]]]]]
      [] line = LineDone -> [step |-> "done", data |-> [some |-> FALSE]]
      [] line = LineStepNum ->
            [step |-> "unknown", data |-> [some |-> TRUE, v |-> [t |-> "null"]]]
      [] line = LineNoStep ->
            [step |-> "unknown",
             data |-> [some |-> TRUE,
                       v |-> [t |-> "arr", items |-> <<[t |-> "num", v |-> 1]>>]]]
      [] line = LineNumber -> [step |-> "unknown", data |-> [some |-> FALSE]]

\* C1: when every non-empty line read so far is valid JSON, the listener has
\* received the synthetic connecting event followed by exactly one event per
\* non-empty line, in the order the remote process wrote the lines.
C1_OrderedDelivery ==
    (pc \in {"read", "done"} /\ child # "none"
        /\ \A i \in 1..nread : is_empty(remoteOut[i]) \/ ValidJson(remoteOut[i]))
    => LET ne == SelectSeq(LinesRead, LAMBDA l : l # "")
       IN /\ Len(emitted) = 1 + Len(ne)
          /\ emitted[1] = [step |-> "connecting", data |-> [some |-> FALSE]]
          /\ \A i \in 1..Len(ne) : emitted[i + 1] = ExpectedEvent(ne[i])

C1_Witness ==
    /\ pc = "done"
    /\ result = Ok
    /\ LinesRead = <<LineScan, LineEmpty, LineDone>>
    /\ Len(emitted) = 3

\* C2: the synthetic connecting event is emitted exactly once, before the
\* spawn and before any line is read; after a failed spawn the listener holds
\* exactly that event and the call has returned the spawn error.
C2_ConnectingFirstAndOnce ==
    /\ pc = "start" => emitted = <<>> /\ child = "none" /\ nread = 0
    /\ pc = "spawn" =>
          emitted = <<[step |-> "connecting", data |-> [some |-> FALSE]]>>
          /\ child = "none" /\ nread = 0
    /\ pc \in {"read", "done"} =>
          /\ emitted[1] = [step |-> "connecting", data |-> [some |-> FALSE]]
          /\ Len(emitted) = 1 + CountForwarded(nread)
    /\ (pc = "done" /\ child = "none") =>
          /\ emitted = <<[step |-> "connecting", data |-> [some |-> FALSE]]>>
          /\ IsSpawnFailure(result)
          /\ nread = 0

C2_Witness == pc = "done" /\ child = "none" /\ IsSpawnFailure(result) /\ Len(emitted) = 1

\* C3: a non-empty line that is not valid JSON aborts the call with an error
\* naming the line; the events of the lines before it stay delivered, and no
\* event is emitted for it or after it.
C3_ParseFailureAborts ==
    /\ [](\A i \in 1..nread :
            (~is_empty(remoteOut[i]) /\ ~ValidJson(remoteOut[i])) =>
                /\ i = nread
                /\ pc = "done"
                /\ IsParseFailure(result)
                /\ \E j \in 1..Len(result.msg) : result.msg[j] = remoteOut[i]
                /\ Len(emitted) = 1 + CountForwarded(i - 1))
    /\ [][pc = "done" => (emitted' = emitted /\ result' = result /\ nread' = nread
                          /\ pc' = "done")]_vars

C3_Witness ==
    /\ pc = "done"
    /\ IsParseFailure(result)
    /\ LinesRead = <<LineScan, LineDone, LineNotJson>>
    /\ Len(emitted) = 3

\* C4: every blank line (empty, or whitespace only) produces no event and
\* does not abort the stream.
C4_BlankLinesIgnored ==
    LET IsBlank(line) == line \in {LineEmpty, LineSpaces}
    IN \A i \in 1..nread :
          IsBlank(remoteOut[i]) =>
              /\ ~(i = nread /\ pc = "done" /\ IsParseFailure(result))
              /\ Len(emitted) >= 1
                    => Len(emitted) = 1 + Cardinality({j \in 1..nread :
                                                          ~IsBlank(remoteOut[j])
                                                          /\ ValidJson(remoteOut[j])})

\* C5: the forwarded step is the line's "step" when that is a string and
\* "unknown" otherwise; the data is the line's "data" when present, else absent.
C5_StepAndData ==
    \A i \in 1..nread :
        (~is_empty(remoteOut[i]) /\ ValidJson(remoteOut[i])) =>
            LET val == from_str(remoteOut[i]).v
                ev == emitted[1 + CountForwarded(i)]
                hasStep == val.t = "obj" /\ "step" \in val.keys
                hasData == val.t = "obj" /\ "data" \in val.keys
            IN /\ 1 + CountForwarded(i) <= Len(emitted)
               /\ IF hasStep /\ val.at["step"].t = "str"
                  THEN ev.step = val.at["step"].v
                  ELSE ev.step = "unknown"
               /\ IF hasData
                  THEN ev.data.some /\ ev.data.v = val.at["data"]
                  ELSE ~ev.data.some

C5_Witness ==
    /\ nread = 3
    /\ LinesRead = <<LineStepNum, LineNoStep, LineScan>>
    /\ Len(emitted) = 4
    /\ emitted[2].step = "unknown" /\ emitted[2].data.some
    /\ emitted[3].step = "unknown"
    /\ emitted[4].step = "scan"

\* C6: once the remote side has closed its stdout the call terminates, with
\* success unless a line was malformed or a read failed; the bridge returns
\* success only at EOF, after every written line was read.
C6_TerminatesAtEof ==
    /\ (stdoutClosed ~> pc = "done")
    /\ [](pc = "done" /\ child # "none" =>
            /\ result = Ok \/ IsParseFailure(result) \/ IsReadFailure(result)
            /\ result = Ok => stdoutClosed /\ nread = Len(remoteOut))
    /\ [](pc = "read" => result = Pending)

C6_Witness ==
    /\ pc = "done"
    /\ result = Ok
    /\ stdoutClosed
    /\ nread = MaxLines

\* C7: a read error returns an error carrying the cause, emits nothing
\* further, and leaves the events delivered before it in place.
C7_ReadErrorFatal ==
    /\ [](IsReadFailure(result) =>
            /\ pc = "done"
            /\ Len(result.msg) = 2
            /\ result.msg[2] \in {"stream did not contain valid UTF-8",
                                  "Input/output error"}
            /\ Len(emitted) = 1 + CountForwarded(nread))
    /\ [][(result = Pending /\ result' # Pending /\ IsReadFailure(result'))
            => (emitted' = emitted /\ pc' = "done")]_vars
    /\ [][IsReadFailure(result) => (emitted' = emitted /\ result' = result)]_vars

C7_Witness ==
    /\ pc = "done"
    /\ IsReadFailure(result)
    /\ nread = 2
    /\ Len(emitted) = 3

\* C8: when the call returns, the child it spawned has been terminated or
\* reaped.
C8_ChildReleasedOnReturn ==
    (pc = "done" /\ child # "none") => child = "reaped"

----------------------------------------------------------------------------
(* Claims about get_top_processes *)

\* C9: get_top_processes(N) returns the first min(N, process_count) elements
\* of the stable descending sort by memory_mb: non-increasing, equal figures in
\* provider iteration order, and empty without error for N = 0.
C9_TopNStableDescending ==
    topResult.kind = "returned" =>
        LET list == topResult.list
            n == Len(procs)
            Key(i) == IF topResult.platform = "macos" /\ procs[i].rusage_ok
                      THEN procs[i].ri_phys_footprint
                      ELSE procs[i].memory
            Before(i, j) == Key(i) > Key(j) \/ (Key(i) = Key(j) /\ i < j)
            Rank(i) == 1 + Cardinality({j \in 1..n : Before(j, i)})
        IN /\ Len(list) = (IF limit < n THEN limit ELSE n)
           /\ \A k \in 1..Len(list) :
                \E i \in 1..n : procs[i].pid = list[k].pid /\ Rank(i) = k
           /\ \A k \in 1..(Len(list) - 1) :
                list[k].memory_mb.num * list[k + 1].memory_mb.den
                    >= list[k + 1].memory_mb.num * list[k].memory_mb.den
           /\ limit = 0 => list = <<>>

C9_Witness ==
    /\ topResult.kind = "returned"
    /\ Len(procs) = 2
    /\ limit = 1
    /\ procs[1].pid > procs[2].pid
    /\ procs[1].memory = procs[2].memory
    /\ topResult.platform = "generic"
    /\ Len(topResult.list) = 1
    /\ topResult.list[1].pid = procs[1].pid

\* C10: on the native path a process whose resource-usage query fails takes
\* the generic resident-memory figure, every other process keeps its native
\* figure, and no process is lost to the failure.
C10_PerProcessFallback ==
    (topResult.kind = "returned" /\ topResult.platform = "macos") =>
        LET list == topResult.list
            n == Len(procs)
        IN /\ \A k \in 1..Len(list) :
                \E i \in 1..n :
                    /\ procs[i].pid = list[k].pid
                    /\ list[k].memory_mb.den = 1048576
                    /\ list[k].memory_mb.num =
                          (IF procs[i].rusage_ok THEN procs[i].ri_phys_footprint
                           ELSE procs[i].memory)
           /\ Cardinality({list[k].pid : k \in 1..Len(list)}) = Len(list)
           /\ Len(list) = (IF limit < n THEN limit ELSE n)
           /\ limit >= n =>
                {list[k].pid : k \in 1..Len(list)} = {procs[i].pid : i \in 1..n}

C10_Witness ==
    /\ topResult.kind = "returned"
    /\ topResult.platform = "macos"
    /\ Len(procs) = 2
    /\ Len(topResult.list) = 2
    /\ ~procs[1].rusage_ok
    /\ procs[2].rusage_ok
    /\ procs[2].ri_phys_footprint # procs[2].memory
    /\ topResult.list[1].pid = procs[1].pid
    /\ topResult.list[1].memory_mb.num = procs[1].memory
    /\ topResult.list[2].memory_mb.num = procs[2].ri_phys_footprint

\* C19: on the native path lsof is run after truncation, for the survivors'
\* pids only and not at all for an empty list; an 'n' line gives the final
\* path segment to the survivor named by the latest 'p' line, and changes
\* nothing when no 'p' line came before, the latest one does not parse, or it
\* names no survivor; order, length and memory figures are untouched.
C19_CwdProbeAfterTruncation ==
    (topResult.kind = "returned" /\ topResult.platform = "macos") =>
        LET list == topResult.list
            n == Len(procs)
            out == lsof.stdout
            \* the index of the latest 'p' line before line i, 0 if none
            LastP(i) == IF \E j \in 1..(i - 1) : out[j].prefix = "p"
                        THEN CHOOSE j \in 1..(i - 1) :
                                /\ out[j].prefix = "p"
                                /\ \A m \in (j + 1)..(i - 1) : out[m].prefix # "p"
                        ELSE 0
            PidText(pid) == CASE pid = 1 -> "1" [] pid = 2 -> "2" [] pid = 3 -> "3"
                              [] OTHER -> "4"
            \* the 'n' lines that belong to pid
            NLines(pid) == {i \in 1..Len(out) :
                              /\ out[i].prefix = "n"
                              /\ LastP(i) # 0
                              /\ out[LastP(i)].rest = PidText(pid)}
            Segment(path) == IF Len(path) = 0 THEN [some |-> FALSE]
                             ELSE [some |-> TRUE, v |-> path[Len(path)]]
            ExpectedCwd(pid) ==
                IF lsof.kind = "spawn_failed" THEN [some |-> FALSE]
                ELSE IF ~lsof.success \/ NLines(pid) = {} THEN [some |-> FALSE]
                ELSE Segment(out[CHOOSE i \in NLines(pid) :
                                    \A m \in NLines(pid) : m <= i].rest)
        IN /\ Len(list) = (IF limit < n THEN limit ELSE n)
           /\ lsofArgs = (IF Len(list) = 0 THEN [some |-> FALSE]
                          ELSE [some |-> TRUE,
                                v |-> [k \in 1..Len(list) |-> list[k].pid]])
           /\ \A k \in 1..Len(list) : list[k].cwd = ExpectedCwd(list[k].pid)
           /\ [k \in 1..Len(list) |-> [list[k] EXCEPT !.cwd = [some |-> FALSE]]]
                = truncate(sort_by([i \in 1..n |-> ProcessMemoryMacos(procs[i])]), limit)

C19_Witness ==
    /\ topResult.kind = "returned"
    /\ topResult.platform = "macos"
    /\ Len(procs) = 2
    /\ limit = 1
    /\ lsof.kind = "exited"
    /\ lsof.success
    /\ Len(lsof.stdout) = 3
    /\ lsof.stdout[1] = [prefix |-> "n", rest |-> <<>>]
    /\ lsof.stdout[2].prefix = "p"
    /\ lsof.stdout[2].rest = "2"
    /\ lsof.stdout[3] = [prefix |-> "n", rest |-> <<"Users", "me", "organizer">>]
    /\ topResult.list[1].pid = 2
    /\ topResult.list[1].cwd = [some |-> TRUE, v |-> "organizer"]
    /\ lsofArgs = [some |-> TRUE, v |-> <<2>>]

\* C20: the exit status of the remote command is never looked at: a child that
\* exits non-zero after writing only parseable lines (possibly none) leaves
\* the call returning success with the connecting event plus one event per
\* line, exactly as for a child that exits with status 0.
C20_ExitStatusIgnored ==
    /\ []((pc = "done" /\ child = "exited" /\ exitCode # 0
             /\ ~IsReadFailure(result)
             /\ \A i \in 1..nread : is_empty(remoteOut[i]) \/ ValidJson(remoteOut[i]))
          => /\ result = Ok
             /\ nread = Len(remoteOut)
             /\ LET ne == SelectSeq(LinesRead, LAMBDA l : l # "")
                IN /\ Len(emitted) = 1 + Len(ne)
                   /\ \A i \in 1..Len(ne) : emitted[i + 1] = ExpectedEvent(ne[i]))
    /\ [][exitCode' # exitCode =>
            (pc' = pc /\ result' = result /\ emitted' = emitted /\ nread' = nread)]_vars
    /\ [][(pc = "read" /\ pc' = "done" /\ result' = Ok) =>
            (stdoutClosed /\ nread = Len(remoteOut))]_vars

C20_Witness ==
    /\ pc = "done"
    /\ result = Ok
    /\ child = "exited"
    /\ exitCode = 255
    /\ LinesRead = <<LineScan, LineDone>>
    /\ Len(emitted) = 3

-----------------------------------------------------------------------------
(* Claims about get_process_details *)

DetailsStatuses == {"Running", "Sleeping", "Stopped", "Zombie", "Idle", "Unknown"}

\* The process table the lookup of the returned call saw.
AliveAtLookup ==
    IF detailsResult.platform = "macos" THEN detailsIn.alive ELSE detailsIn.aliveLater

\* C11: a pid that does not exist yields an error whose message contains the
\* pid; an existing pid yields a record whose status is one of the six values,
\* every library state outside Run, Sleep, Stop, Zombie, Idle giving Unknown.
C11_NotFoundAndStatus ==
    detailsResult.kind # "pending" =>
        IF detailsIn.pid \notin AliveAtLookup
        THEN /\ detailsResult.kind = "Err"
             /\ \E i \in 1..Len(detailsResult.msg) :
                    detailsResult.msg[i] = ToString(detailsIn.pid)
        ELSE /\ detailsResult.kind = "Ok"
             /\ detailsResult.value.pid = detailsIn.pid
             /\ detailsResult.value.status \in DetailsStatuses
             /\ detailsResult.value.status =
                  (CASE detailsIn.process.status = "Run" -> "Running"
                     [] detailsIn.process.status = "Sleep" -> "Sleeping"
                     [] detailsIn.process.status = "Stop" -> "Stopped"
                     [] detailsIn.process.status = "Zombie" -> "Zombie"
                     [] detailsIn.process.status = "Idle" -> "Idle"
                     [] OTHER -> "Unknown")

C11_Witness ==
    /\ detailsResult.kind = "Ok"
    /\ detailsResult.platform = "generic"
    /\ detailsIn.pid \notin detailsIn.alive
    /\ detailsIn.process.status = "Parked"
    /\ detailsResult.value.status = "Unknown"

\* A probe failed: it could not be spawned, exited non-zero, or printed
\* nothing usable.
UserProbeFailed(o) ==
    o.kind = "spawn_failed" \/ ~o.success \/ Trim(o.stdout) = ""

CwdProbeFailed(o) ==
    o.kind = "spawn_failed" \/ ~o.success
        \/ \A i \in 1..Len(o.stdout) : o.stdout[i].prefix # "n"

CpuProbeFailed(o) ==
    o.kind = "spawn_failed" \/ ~o.success \/ Trim(o.stdout) \notin {"12.5", "0.0"}

\* C12: no probe failure (spawn error, non-zero exit, unparseable output) fails
\* the detail call: only a pid that does not exist does; for an existing pid
\* the record is returned with the affected field degraded: owner absent,
\* working directory the library's (or absent), cpu usage 0.
C12_ProbeFailuresDegrade ==
    (detailsResult.kind # "pending" /\ detailsResult.platform = "macos") =>
        /\ detailsResult.kind = "Err" <=> detailsIn.pid \notin detailsIn.alive
        /\ detailsResult.kind = "Ok" =>
              /\ UserProbeFailed(detailsIn.psUser) =>
                    detailsResult.value.user = None
              /\ CwdProbeFailed(detailsIn.lsofCwd) =>
                    detailsResult.value.cwd = detailsIn.process.cwd
              /\ CpuProbeFailed(detailsIn.psCpu) =>
                    detailsResult.value.cpu_usage = 0

-----------------------------------------------------------------------------
(* Claims about get_memory_info *)

\* pages * page_size bytes, as the numerator over BytesPerGb.
PagesNum(pages) == pages * memIn.page_size

Max0(x) == IF x > 0 THEN x ELSE 0

\* C16: when the kernel statistics call succeeds, used = app + wired +
\* compressed and available >= free, where free = max(0, free - speculative),
\* app = max(0, internal - purgeable), cached = purgeable + external and
\* available = free + inactive, for all page-counter values.
C16_NativeIdentities ==
    (memResult.kind = "returned" /\ memResult.platform = "macos" /\ memIn.kr = 0) =>
        LET v == memResult.value
            vm == memIn.vm_stat
        IN /\ memResult.path = "native"
           /\ \A f \in DOMAIN v : v[f].den = BytesPerGb
           /\ v.used_gb.num = v.app_gb.num + v.wired_gb.num + v.compressed_gb.num
           /\ v.available_gb.num >= v.free_gb.num
           /\ v.free_gb.num = PagesNum(Max0(vm.free_count - vm.speculative_count))
           /\ v.app_gb.num = PagesNum(Max0(vm.internal_page_count - vm.purgeable_count))
           /\ v.cached_gb.num = PagesNum(vm.purgeable_count + vm.external_page_count)
           /\ v.available_gb.num = v.free_gb.num + PagesNum(vm.inactive_count)
           /\ v.wired_gb.num = PagesNum(vm.wire_count)
           /\ v.compressed_gb.num = PagesNum(vm.compressor_page_count)

C16_Witness ==
    /\ memResult.kind = "returned"
    /\ memResult.path = "native"
    /\ memIn.vm_stat.free_count < memIn.vm_stat.speculative_count
    /\ memIn.vm_stat.internal_page_count < memIn.vm_stat.purgeable_count
    /\ memIn.vm_stat.inactive_count = 1
    /\ memIn.page_size = 16384
    /\ memResult.value.free_gb.num = 0
    /\ memResult.value.available_gb.num = 16384
    /\ memResult.value.used_gb.num = 32768

\* C17: available_gb >= free_gb in every MemoryInfo, on the native path, on
\* the fallback after a failed kernel call, and on the generic path.
C17_AvailableAtLeastFree ==
    memResult.kind = "returned" =>
        memResult.value.available_gb.num >= memResult.value.free_gb.num

\* C18: when the kernel statistics call returns non-zero the call still
\* returns a MemoryInfo: app, wired, compressed and cached are zero; total,
\* used, available (total less used), free and swap are the library's figures;
\* nothing of the page counters or of sysctl appears.
C18_SilentFallback ==
    (memResult.kind # "pending" /\ memResult.platform = "macos" /\ memIn.kr # 0) =>
        LET v == memResult.value
            lib == memIn.lib
        IN /\ memResult.kind = "returned"
           /\ memResult.path = "fallback"
           /\ \A f \in DOMAIN v : v[f].den = BytesPerGb
           /\ v.app_gb.num = 0
           /\ v.wired_gb.num = 0
           /\ v.compressed_gb.num = 0
           /\ v.cached_gb.num = 0
           /\ v.total_gb.num = lib.total_memory
           /\ v.used_gb.num = lib.used_memory
           /\ v.available_gb.num = lib.total_memory - lib.used_memory
           /\ v.free_gb.num = lib.free_memory
           /\ v.swap_total_gb.num = lib.total_swap
           /\ v.swap_used_gb.num = lib.used_swap

C18_Witness ==
    /\ memResult.kind = "returned"
    /\ memResult.platform = "macos"
    /\ memIn.kr = 5
    /\ memIn.vm_stat.wire_count = 1
    /\ memIn.sysctl = Exited(TRUE, "65536\n")
    /\ memIn.lib.total_memory = 2
    /\ memIn.lib.used_memory = 1
    /\ memIn.lib.available_memory = 2
    /\ memResult.value.total_gb.num = 2
    /\ memResult.value.available_gb.num = 1
    /\ memResult.value.wired_gb.num = 0

-----------------------------------------------------------------------------
(* Claims about get_disk_space and get_disk_space_detailed *)

DetailedReturned ==
    diskResult.kind = "Ok" /\ diskResult.cmd = "get_disk_space_detailed"

\* C13: every DiskSpaceDetailed has purgeable = max(0, available_with_purgeable
\* - available), used = max(0, total - available_with_purgeable) and
\* total >= used >= 0; on the generic path purgeable is 0 and
\* available_with_purgeable equals available.
C13_DetailedIdentities ==
    DetailedReturned =>
        LET v == diskResult.value
        IN /\ \A f \in DOMAIN v : v[f].den = BytesPerGb
           /\ v.purgeable_gb.num =
                Max0(v.available_with_purgeable_gb.num - v.available_gb.num)
           /\ v.used_gb.num = Max0(v.total_gb.num - v.available_with_purgeable_gb.num)
           /\ v.total_gb.num >= v.used_gb.num
           /\ v.used_gb.num >= 0
           /\ diskResult.platform = "generic" =>
                /\ v.purgeable_gb.num = 0
                /\ v.available_with_purgeable_gb = v.available_gb
                /\ v.available_gb.num = SelectDisk(diskIn.disks).v.available_space
                /\ v.total_gb.num = SelectDisk(diskIn.disks).v.total_space
           /\ diskResult.platform = "macos" =>
                diskIn.swift.stdout =
                    SwiftPrints(v.total_gb.num, v.available_gb.num,
                                v.available_with_purgeable_gb.num)

C13_Witness ==
    /\ DetailedReturned
    /\ diskResult.platform = "macos"
    /\ diskIn.swift.stdout = SwiftPrints(3, 1, 2)
    /\ diskResult.value.purgeable_gb.num = 1
    /\ diskResult.value.used_gb.num = 1

\* C14: every DiskSpaceDetailed has available_with_purgeable_gb >=
\* available_gb, whatever three integers the helper printed.
C14_PurgeableInclusive ==
    DetailedReturned =>
        diskResult.value.available_with_purgeable_gb.num >=
            diskResult.value.available_gb.num

RootIndices == {i \in 1..Len(diskIn.disks) : IsRootMount(diskIn.disks[i])}

\* C15: on the generic path the volume used is the (first) enumerated volume
\* mounted at "/" or "C:\" when there is one, otherwise the first enumerated
\* volume; both commands fail exactly when no volume is enumerated.
C15_VolumeSelection ==
    (diskResult.kind # "pending" /\ diskResult.platform = "generic") =>
        LET disks == diskIn.disks
            used == IF RootIndices # {}
                    THEN disks[CHOOSE i \in RootIndices : \A j \in RootIndices : i <= j]
                    ELSE disks[1]
        IN /\ diskResult.kind = "Err" <=> Len(disks) = 0
           /\ diskResult.kind = "Err" => diskResult.msg = <<"No disk found">>
           /\ diskResult.kind = "Ok" =>
                /\ diskResult.value.total_gb = to_gb(used.total_space)
                /\ diskResult.cmd = "get_disk_space" =>
                      diskResult.value.free_gb = to_gb(used.available_space)
                /\ diskResult.cmd = "get_disk_space_detailed" =>
                      diskResult.value.available_gb = to_gb(used.available_space)

C15_Witness ==
    /\ diskResult.kind = "Ok"
    /\ diskResult.platform = "generic"
    /\ diskResult.cmd = "get_disk_space"
    /\ Len(diskIn.disks) = 2
    /\ diskIn.disks[1].mount_point = "/data"
    /\ diskIn.disks[2].mount_point = "C:\\"
    /\ diskResult.value.free_gb.num = 2

-----------------------------------------------------------------------------
(* Claims about lines that are JSON values other than objects *)

NonObjectLines == {LineNumber, LineString, LineArray, LineTrue, LineFalse, LineNull}

\* C21: a line that is valid JSON but not an object (a number, a string, an
\* array, true, false, null) is no protocol violation: reading it emits one
\* event with step "unknown" and no data, the call neither returns nor fails,
\* and the next line is read and forwarded as usual.
C21_NonObjectForwardedAsUnknown ==
    /\ [](\A i \in 1..nread :
            remoteOut[i] \in NonObjectLines =>
                /\ Len(emitted) >= 1 + i
                /\ emitted[1 + i] = [step |-> "unknown", data |-> [some |-> FALSE]])
    /\ []((pc = "done" /\ \E i \in 1..nread : remoteOut[i] \in NonObjectLines)
            => (result = Ok \/ IsReadFailure(result)))
    /\ [][(nread' = nread + 1 /\ remoteOut[nread + 1] \in NonObjectLines) =>
            /\ pc' = "read"
            /\ result' = Pending
            /\ emitted' = Append(emitted, [step |-> "unknown", data |-> [some |-> FALSE]])]_vars
    /\ [][(nread' = nread + 1 /\ nread >= 1 /\ remoteOut[nread] \in NonObjectLines
             /\ remoteOut[nread + 1] = LineScan) =>
            emitted' = Append(emitted, ExpectedEvent(LineScan))]_vars

C21_Witness ==
    /\ pc = "done"
    /\ result = Ok
    /\ LinesRead = <<LineArray, LineNull, LineScan>>
    /\ Len(emitted) = 4
    /\ emitted[2].step = "unknown"
    /\ emitted[3].step = "unknown"
    /\ emitted[4].step = "scan"

====
